---- MODULE Spec2Model ----
(***************************************************************************)
(* CIPhR: the ingestion reconciliation engine (schema resolver, duplicate  *)
(* index, response reconciler, store writer, content windower).            *)
(*                                                                         *)
(* Text is a sequence of symbols.  A one-character string is that          *)
(* character; a longer string is a literal of the program ("Paper Title",  *)
(* "[Link](", "http://arxiv.org/abs/", "Not found", ...) kept as one       *)
(* symbol: no literal starts or ends with whitespace or holds "|", a line  *)
(* break or ")", so strip, split and the link pattern treat it as the run  *)
(* of ordinary characters it is.  Len of a symbol is its character count.  *)
(***************************************************************************)
EXTENDS Integers, Sequences, FiniteSets, TLC

VARIABLES
    fs,        \* the output directory: file name -> content
    today,     \* index into Days of the current local date
    base,      \* args.output_filename
    last,      \* the last call made: its arguments, the files before it, its result
    written,   \* file name -> the arguments of the last save_results that wrote it
    calls,     \* number of calls of the API, or runs of main, so far
    LLM_QUESTIONS,  \* the configured schema
    checkpoint,  \* papers_data.json
    prompts,     \* analysis_prompts.json
    llm_file     \* args.llm_results_file

pipeline == <<LLM_QUESTIONS, checkpoint, prompts, llm_file>>

vars == <<fs, today, base, last, written, calls, LLM_QUESTIONS, checkpoint, prompts,
          llm_file>>

(***************************************************************************)
(* Bounds of the model.                                                    *)
(***************************************************************************)
MaxCalls == 2
MaxRecords == 2
MaxSegments == 3
MaxText == 3
MaxBudget == 30

(***************************************************************************)
(* Python str primitives on texts.                                         *)
(***************************************************************************)
Range(s) == {s[i] : i \in 1..Len(s)}

SetMin(S) == CHOOSE x \in S : \A y \in S : x <= y
SetMax(S) == CHOOSE x \in S : \A y \in S : x >= y

IsSpace(c) == c \in {" ", "\n", "\t"}

Strip(s) ==
    LET keep == {i \in 1..Len(s) : ~IsSpace(s[i])}
    IN  IF keep = {} THEN <<>> ELSE SubSeq(s, SetMin(keep), SetMax(keep))

RECURSIVE Split(_, _)
Split(s, d) ==
    LET at == {i \in 1..Len(s) : s[i] = d}
    IN  IF at = {} THEN <<s>>
        ELSE <<SubSeq(s, 1, SetMin(at) - 1)>>
             \o Split(SubSeq(s, SetMin(at) + 1, Len(s)), d)

RECURSIVE Join(_, _)
Join(parts, sep) ==
    IF parts = <<>> THEN <<>>
    ELSE IF Len(parts) = 1 THEN parts[1]
    ELSE parts[1] \o sep \o Join(Tail(parts), sep)

ReplaceNewline(s) == [i \in 1..Len(s) |-> IF s[i] = "\n" THEN " " ELSE s[i]]

RECURSIVE TextLen(_)
TextLen(s) == IF s = <<>> THEN 0 ELSE Len(Head(s)) + TextLen(Tail(s))

Dashes(n) == [i \in 1..n |-> "-"]

UpperCase == <<"A", "B", "C", "D", "E", "F", "G", "H", "I", "J", "K", "L", "M", "N",
              "O", "P", "Q", "R", "S", "T", "U", "V", "W", "X", "Y", "Z">>

LowerCase == <<"a", "b", "c", "d", "e", "f", "g", "h", "i", "j", "k", "l", "m", "n",
              "o", "p", "q", "r", "s", "t", "u", "v", "w", "x", "y", "z">>

LowerChar(c) ==
    IF \E i \in 1..Len(UpperCase) : UpperCase[i] = c
    THEN LowerCase[CHOOSE i \in 1..Len(UpperCase) : UpperCase[i] = c]
    ELSE c

Lower(s) == [i \in 1..Len(s) |-> LowerChar(s[i])]

(***************************************************************************)
(* The file system of the output directory: file name -> content.          *)
(***************************************************************************)
NoFiles == [n \in {} |-> <<>>]

NoFile == [exists |-> FALSE, data |-> <<>>]

File(data) == [exists |-> TRUE, data |-> data]

Exists(files, name) == name \in DOMAIN files

WriteFile(files, name, content) ==
    [n \in DOMAIN files \cup {name} |-> IF n = name THEN content ELSE files[n]]

(***************************************************************************)
(* ResultProcessor                                                         *)
(***************************************************************************)
TITLE_COLUMN == <<"Paper Title">>
LINK_COLUMN == <<"arXiv Link">>
ColumnSep == <<" ", "|", " ">>
NoResultsText == <<"No results to display.">>

AnswerOf(result, question) ==
    IF question \in DOMAIN result.llm_answers
    THEN result.llm_answers[question]
    ELSE <<"N/A">>

TableRow(result, questions) ==
    Join(<<result.title, <<"[Link](">> \o result.arxiv_url \o <<")">>>>
         \o [i \in 1..Len(questions) |->
                ReplaceNewline(AnswerOf(result, questions[i]))],
         ColumnSep) \o <<"\n">>

RECURSIVE TableRows(_, _)
TableRows(results, questions) ==
    IF results = <<>> THEN <<>>
    ELSE TableRow(Head(results), questions) \o TableRows(Tail(results), questions)

TableHeader(questions) ==
    LET headers == <<TITLE_COLUMN, LINK_COLUMN>>
                       \o [i \in 1..Len(questions) |-> ReplaceNewline(questions[i])]
    IN  Join(headers, ColumnSep) \o <<"\n">>
        \o Join([i \in 1..Len(headers) |-> Dashes(TextLen(headers[i]))], ColumnSep)
        \o <<"\n">>

generate_markdown_table(results, questions, include_header) ==
    IF results = <<>> THEN NoResultsText
    ELSE (IF include_header THEN TableHeader(questions) ELSE <<>>)
         \o TableRows(results, questions)

(* A byte that is not UTF-8: reading a file that holds one raises          *)
(* UnicodeDecodeError.                                                     *)
Undecodable == "0xFF"

Unreadable(content) == Undecodable \in Range(content)

extract_questions_from_existing_file(files, file_path) ==
    IF ~Exists(files, file_path) THEN <<>>
    ELSE IF Unreadable(files[file_path]) THEN <<>>
    ELSE IF files[file_path] = <<>> THEN <<>>
    ELSE LET header_line == Strip(Head(Split(files[file_path], "\n")))
             cells == Split(header_line, "|")
             headers == [i \in 1..Len(cells) |-> Strip(cells[i])]
         IN  IF Len(headers) >= 2
             THEN SelectSeq(SubSeq(headers, 3, Len(headers)), LAMBDA q : q # <<>>)
             ELSE <<>>

NormalizeQuestion(q) == Strip(ReplaceNewline(q))

NormalizeQuestions(questions) ==
    [i \in 1..Len(questions) |-> NormalizeQuestion(questions[i])]

questions_match_exact(existing_questions, config_questions) ==
    existing_questions = config_questions

questions_match(existing_questions, config_questions) ==
    NormalizeQuestions(existing_questions) = NormalizeQuestions(config_questions)

Digit(n) == <<"0", "1", "2", "3", "4", "5", "6", "7", "8", "9">>[n + 1]

TwoDigits(n) == <<Digit((n \div 10) % 10), Digit(n % 10)>>

generate_date_suffix(now) ==
    TwoDigits(now.day) \o TwoDigits(now.month) \o TwoDigits(now.year % 100)

SplitExt(name) ==
    LET dots == {i \in 1..Len(name) : name[i] = "."}
        dot == IF dots = {} THEN 0 ELSE SetMax(dots)
    IN  IF dot > 0 /\ \E i \in 1..(dot - 1) : name[i] # "."
        THEN <<SubSeq(name, 1, dot - 1), SubSeq(name, dot, Len(name))>>
        ELSE <<name, <<>>>>

RotatedName(base_filename, now) ==
    SplitExt(base_filename)[1] \o <<"_">> \o generate_date_suffix(now)
        \o SplitExt(base_filename)[2]

get_output_filename_base(files, base_filename, questions, now) == base_filename

get_output_filename(files, base_filename, questions, now) ==
    IF ~Exists(files, base_filename) THEN base_filename
    ELSE IF questions_match(
                extract_questions_from_existing_file(files, base_filename), questions)
    THEN base_filename
    ELSE RotatedName(base_filename, now)

SplitLines(text) == Split(text, "\n")

PrependedContent(existing_content, results, questions) ==
    LET existing_lines == SplitLines(Strip(existing_content))
        new_markdown_table == generate_markdown_table(results, questions, FALSE)
        new_data_lines == IF Strip(new_markdown_table) # <<>>
                          THEN SplitLines(Strip(new_markdown_table))
                          ELSE <<>>
        combined_lines == <<existing_lines[1], existing_lines[2]>>
                          \o new_data_lines
                          \o SubSeq(existing_lines, 3, Len(existing_lines))
    IN  Join(combined_lines, <<"\n">>) \o <<"\n">>

save_results(files, results, questions, base_filename, now) ==
    LET filename == get_output_filename(files, base_filename, questions, now)
        should_prepend == filename = base_filename /\ Exists(files, filename)
    IN  IF should_prepend /\ Unreadable(files[filename])
        THEN files
        ELSE IF should_prepend
             /\ Len(SplitLines(Strip(files[filename]))) >= 2
        THEN WriteFile(files, filename,
                       PrependedContent(files[filename], results, questions))
        ELSE WriteFile(files, filename,
                       generate_markdown_table(results, questions, TRUE))

(***************************************************************************)
(* LLM output.  An output text is a sequence of tokens: PAPER_SEPARATOR,   *)
(* " ", "[", "]", ",", a word of prose ("w"), a JSON scalar ("7") and the  *)
(* text of a JSON object, named by a token and spelled out by ObjectOf as  *)
(* its ordered key/value pairs.  "{R}" is an object nested deeper than the *)
(* recursion limit: json.loads raises RecursionError when it reaches it.   *)
(***************************************************************************)
PAPER_SEPARATOR == "---PAPER---"

ObjectTokens == {"{A}", "{B}", "{N}", "{E}", "{F}", "{X}", "{R}", "{U}", "{L}", "{K}", "{Z}"}

ScalarTokens == {"7"}

NotFound == <<"Not found">>
ErrorOrNotFound == <<"Error or not found.">>

ObjectOf(token, questions) ==
    IF token = "{A}"
    THEN [i \in 1..Len(questions) |-> <<questions[i], <<"x">>>>]
    ELSE IF token = "{B}"
    THEN [i \in 1..Len(questions) |-> <<questions[i], <<>>>>]
    ELSE IF token = "{N}"
    THEN [i \in 1..Len(questions) |-> <<questions[i], ErrorOrNotFound>>]
    ELSE IF token = "{F}"
    THEN [i \in 1..Len(questions) |-> <<questions[i], <<"Error: Empty LLM response">>>>]
    ELSE IF token = "{X}"
    THEN [i \in 1..Len(questions) |-> <<questions[i], <<"Error during analysis:", " ", "e">>>>]
    ELSE IF token = "{R}"
    THEN [i \in 1..Len(questions) |-> <<questions[i], <<"{{...}}">>>>]
    ELSE IF token = "{U}"
    THEN << << <<"q", " ", "z">>, <<"y">> >>, << <<"Q">>, <<"x">> >> >>
    ELSE IF token = "{L}"
    THEN << << <<"Q">>, <<"x">> >>, << <<"q", " ", "z">>, <<"y">> >> >>
    ELSE IF token = "{K}"
    THEN << << <<"Q">>, <<"x">> >> >>
    ELSE IF token = "{Z}"
    THEN << << <<"z">>, <<"x">> >> >>
    ELSE << << <<"e", "r", "r", "o", "r">>, <<"No LLM result available">> >> >>

RECURSIVE Words(_)
Words(text) ==
    LET t == Strip(text)
        gaps == {i \in 1..Len(t) : IsSpace(t[i])}
    IN  IF t = <<>> THEN <<>>
        ELSE IF gaps = {} THEN <<t>>
        ELSE <<SubSeq(t, 1, SetMin(gaps) - 1)>>
             \o Words(SubSeq(t, SetMin(gaps) + 1, Len(t)))

FirstWords(text, n) ==
    LET w == Words(text) IN SubSeq(w, 1, IF Len(w) < n THEN Len(w) ELSE n)

Contains(text, part) ==
    \E k \in 0..(Len(text) - Len(part)) : SubSeq(text, k + 1, k + Len(part)) = part

KeyMatches(question, key) ==
    LET question_lower == Strip(Lower(question))
        key_lower == Strip(Lower(key))
    IN  \/ question_lower = key_lower
        \/ \A w \in Range(FirstWords(question_lower, 3)) : Contains(key_lower, w)
        \/ \A w \in Range(FirstWords(key_lower, 3)) : Contains(question_lower, w)

MatchedAnswer(question, parsed_answers) ==
    LET exact == {i \in 1..Len(parsed_answers) : parsed_answers[i][1] = question}
        fuzzy == {i \in 1..Len(parsed_answers) : KeyMatches(question, parsed_answers[i][1])}
        answer == IF exact # {} THEN parsed_answers[SetMin(exact)][2]
                  ELSE IF fuzzy # {} THEN parsed_answers[SetMin(fuzzy)][2]
                  ELSE <<>>
    IN  IF answer # <<>> THEN Strip(answer) ELSE NotFound

Prefix(text, n) == SubSeq(text, 1, IF Len(text) < n THEN Len(text) ELSE n)

(* The characters of a token of the output: the keys and values of an      *)
(* object, the token itself otherwise.                                     *)
RECURSIVE PairsText(_)
PairsText(pairs) ==
    IF pairs = <<>> THEN <<>>
    ELSE <<"{", "\"">> \o Head(pairs)[1] \o <<"\"", ":", " ", "\"">>
         \o Head(pairs)[2] \o <<"\"", "}">> \o PairsText(Tail(pairs))

RECURSIVE OutputText(_, _)
OutputText(llm_output, questions) ==
    IF llm_output = <<>> THEN <<>>
    ELSE (IF Head(llm_output) \in ObjectTokens
          THEN PairsText(ObjectOf(Head(llm_output), questions))
          ELSE <<Head(llm_output)>>)
         \o OutputText(Tail(llm_output), questions)

(* re.sub(r"^[\d\.\-\*\s]*", "", line) on a line of tokens.                 *)
RECURSIVE LeadingCleaned(_)
LeadingCleaned(line) ==
    IF line # <<>> /\ (IsSpace(Head(line)) \/ Head(line) \in ScalarTokens)
    THEN LeadingCleaned(Tail(line))
    ELSE line

TextFallbackAnswer(question, llm_output, questions) ==
    LET section_lower == Strip(Lower(OutputText(llm_output, questions)))
        question_keywords == FirstWords(Lower(question), 4)
        line == Strip(llm_output)
        line_lower == Lower(OutputText(line, questions))
    IN  IF /\ \E k \in 1..Len(question_keywords) :
                  Contains(section_lower, question_keywords[k])
           /\ TextLen(line_lower) > TextLen(question) + 5
           /\ Prefix(line_lower, Len(Prefix(question, 10)))
                # Prefix(Lower(question), 10)
           /\ LeadingCleaned(line) # <<>>
        THEN LeadingCleaned(line)
        ELSE NotFound

(* json.loads of the text from the first "{" to the last "}" raises        *)
(* RecursionError when the first object it decodes is nested too deeply.   *)
ParseRaises(llm_output) ==
    LET objects == {i \in 1..Len(llm_output) : llm_output[i] \in ObjectTokens}
    IN  objects # {} /\ llm_output[SetMin(objects)] = "{R}"

parse_llm_results(llm_output, questions) ==
    LET objects == {i \in 1..Len(llm_output) : llm_output[i] \in ObjectTokens}
    IN  IF objects # {} /\ SetMin(objects) = SetMax(objects)
        THEN [q \in Range(questions) |->
                 MatchedAnswer(q, ObjectOf(llm_output[SetMin(objects)], questions))]
        ELSE [q \in Range(questions) |-> TextFallbackAnswer(q, llm_output, questions)]

PaperAnswers_unguarded(paper_data, llm_output, questions) ==
    IF Strip(llm_output) = <<>>
    THEN [q \in Range(questions) |-> ErrorOrNotFound]
    ELSE parse_llm_results(llm_output, questions)

PaperAnswers(paper_data, llm_output, questions) ==
    IF Strip(llm_output) = <<>>
    THEN [q \in Range(questions) |-> ErrorOrNotFound]
    ELSE IF ParseRaises(llm_output)
    THEN [q \in Range(questions) |->
             <<"Error: Exception during parsing - ", "maximum recursion depth exceeded">>]
    ELSE LET llm_answers == parse_llm_results(llm_output, questions)
         IN  IF \A q \in Range(questions) :
                    llm_answers[q] \in {NotFound, ErrorOrNotFound, <<>>}
             THEN [q \in Range(questions) |->
                      <<"Error: Failed to parse LLM result for", " ">>
                      \o Prefix(paper_data.title, 50) \o <<"...">>]
             ELSE llm_answers

(* The elements of the flat JSON array spelled by tokens "[" ... "]", or   *)
(* Invalid when json.loads rejects the text.                               *)
Invalid == <<"invalid">>

JsonArrayItems(json_str) ==
    LET body == SelectSeq(SubSeq(json_str, 2, Len(json_str) - 1), LAMBDA t : ~IsSpace(t))
        IsValue(t) == t \in ObjectTokens \cup ScalarTokens
    IN  IF body = <<>> THEN <<>>
        ELSE IF /\ Len(body) % 2 = 1
                /\ \A i \in 1..Len(body) :
                      IF i % 2 = 1 THEN IsValue(body[i]) ELSE body[i] = ","
        THEN [i \in 1..((Len(body) + 1) \div 2) |-> <<body[2 * i - 1]>>]
        ELSE Invalid

(* json.loads decodes the array from left to right: it raises             *)
(* RecursionError at a "{R}" element unless a syntax error comes first.    *)
JsonArrayRaises(json_str) ==
    LET body == SelectSeq(SubSeq(json_str, 2, Len(json_str) - 1), LAMBDA t : ~IsSpace(t))
        deep == {i \in 1..Len(body) : i % 2 = 1 /\ body[i] = "{R}"}
        bad == {i \in 1..Len(body) :
                   IF i % 2 = 1 THEN body[i] \notin ObjectTokens \cup ScalarTokens
                   ELSE body[i] # ","}
    IN  deep # {} /\ \A i \in bad : SetMin(deep) < i

JsonArrayMatch(content) ==
    LET opens == {i \in 1..Len(content) : content[i] = "["}
        closes == {i \in 1..Len(content) : content[i] = "]"}
    IN  IF opens # {} /\ closes # {} /\ SetMin(opens) < SetMax(closes)
        THEN SubSeq(content, SetMin(opens), SetMax(closes))
        ELSE <<>>

AnalysisOfItem(item, questions) ==
    IF item[1] \in ObjectTokens
    THEN LET analysis == ObjectOf(item[1], questions)
             Loose(q, key) ==
                 \/ Strip(Lower(q)) = Strip(Lower(key))
                 \/ \E w \in Range(FirstWords(Strip(Lower(q)), 3)) :
                       Contains(Strip(Lower(key)), w)
             Pick(q) ==
                 LET exact == {i \in 1..Len(analysis) : analysis[i][1] = q}
                     loose == {i \in 1..Len(analysis) : Loose(q, analysis[i][1])}
                     answer == IF exact # {} THEN analysis[SetMin(exact)][2]
                               ELSE IF loose # {} THEN analysis[SetMin(loose)][2]
                               ELSE <<>>
                 IN  IF answer # <<>> THEN Strip(answer) ELSE NotFound
         IN  [q \in Range(questions) |-> Pick(q)]
    ELSE [q \in Range(questions) |-> <<"Error parsing result">>]

CombinedResult(paper_data, llm_answers) ==
    [title |-> paper_data.title, arxiv_url |-> paper_data.arxiv_url,
     llm_answers |-> llm_answers]

parse_comprehensive_llm_result(llm_output, papers_data, questions) ==
    LET json_str == JsonArrayMatch(llm_output)
        parsed_data == IF json_str = <<>> THEN Invalid ELSE JsonArrayItems(json_str)
    IN  IF parsed_data # Invalid /\ Len(parsed_data) = Len(papers_data)
        THEN [i \in 1..Len(papers_data) |->
                 CombinedResult(papers_data[i], AnalysisOfItem(parsed_data[i], questions))]
        ELSE <<>>

(* parse_comprehensive_llm_result catches JSONDecodeError and             *)
(* AttributeError only: a RecursionError leaves combine_results.           *)
combine_results_raises(papers_data, llm_results, questions) ==
    /\ Len(llm_results) = 1
    /\ Len(papers_data) > 1
    /\ JsonArrayMatch(llm_results[1]) # <<>>
    /\ JsonArrayRaises(JsonArrayMatch(llm_results[1]))

ZipLength(a, b) == IF Len(a) < Len(b) THEN Len(a) ELSE Len(b)

combine_results(papers_data, llm_results, questions) ==
    LET comprehensive_result ==
            IF Len(llm_results) = 1 /\ Len(papers_data) > 1
            THEN parse_comprehensive_llm_result(llm_results[1], papers_data, questions)
            ELSE <<>>
    IN  IF comprehensive_result # <<>> THEN comprehensive_result
        ELSE [i \in 1..ZipLength(papers_data, llm_results) |->
                 CombinedResult(papers_data[i],
                                PaperAnswers(papers_data[i], llm_results[i], questions))]

(***************************************************************************)
(* ciphr_hybrid.main, result processing: shape detection and count         *)
(* reconciliation of the content of the LLM results file.                  *)
(***************************************************************************)
NonEmptyStripped(parts) ==
    LET stripped == [i \in 1..Len(parts) |-> Strip(parts[i])]
    IN  SelectSeq(stripped, LAMBDA r : r # <<>>)

ParsedSegments_array_first(content) ==
    IF Strip(content)[1] = "[" /\ JsonArrayMatch(content) # <<>>
          /\ JsonArrayItems(JsonArrayMatch(content)) # Invalid
    THEN JsonArrayItems(JsonArrayMatch(content))
    ELSE IF PAPER_SEPARATOR \in Range(content)
    THEN NonEmptyStripped(Split(content, PAPER_SEPARATOR))
    ELSE <<content>>

ParsedSegments(content) ==
    IF PAPER_SEPARATOR \in Range(content)
    THEN NonEmptyStripped(Split(content, PAPER_SEPARATOR))
    ELSE IF Strip(content)[1] = "["
    THEN IF JsonArrayMatch(content) = <<>> THEN <<>>
         ELSE IF JsonArrayItems(JsonArrayMatch(content)) = Invalid THEN <<content>>
         ELSE JsonArrayItems(JsonArrayMatch(content))
    ELSE <<content>>

(* The except clause of main names JSONDecodeError and AttributeError: a  *)
(* RecursionError from json.loads ends the run before anything is saved.   *)
ParsingRaises(content) ==
    /\ PAPER_SEPARATOR \notin Range(content)
    /\ Strip(content)[1] = "["
    /\ JsonArrayMatch(content) # <<>>
    /\ JsonArrayRaises(JsonArrayMatch(content))

NoResultAvailable == <<"{E}">>

UnadjustedResults(llm_results_parsed, n) == llm_results_parsed

AdjustedResults_from_end(llm_results_parsed, n) ==
    IF Len(llm_results_parsed) < n
    THEN llm_results_parsed
         \o [i \in 1..(n - Len(llm_results_parsed)) |-> NoResultAvailable]
    ELSE SubSeq(llm_results_parsed, Len(llm_results_parsed) - n + 1,
                Len(llm_results_parsed))

AdjustedResults(llm_results_parsed, n) ==
    IF Len(llm_results_parsed) < n
    THEN llm_results_parsed
         \o [i \in 1..(n - Len(llm_results_parsed)) |-> NoResultAvailable]
    ELSE SubSeq(llm_results_parsed, 1, n)

ProcessingRaises(raw) ==
    Strip(raw) # <<>> /\ ParsingRaises(Strip(raw))

(* llm_results as main passes it to combine_results.                       *)
ReconciledResults(raw, papers_data) ==
    LET content == Strip(raw)
    IN  IF content = <<>>
        THEN [i \in 1..Len(papers_data) |-> <<"{F}">>]
        ELSE AdjustedResults(ParsedSegments(content), Len(papers_data))

ProcessedResults(raw, papers_data, questions) ==
    combine_results(papers_data, ReconciledResults(raw, papers_data), questions)

(***************************************************************************)
(* DuplicateIndex (utils.py) and DataProcessor.collect_paper_data.         *)
(***************************************************************************)
ARXIV_PREFIX == "http://arxiv.org/abs/"

extract_existing_arxiv_links(files, file_path) ==
    IF ~Exists(files, file_path) THEN {}
    ELSE IF Unreadable(files[file_path]) THEN {}
    ELSE LET content == files[file_path]
             Closing(i) == {j \in (i + 3)..Len(content) : content[j] = ")"}
             starts == {i \in 1..Len(content) :
                           /\ i + 3 <= Len(content)
                           /\ content[i] = "[Link]("
                           /\ content[i + 1] = ARXIV_PREFIX
                           /\ content[i + 2] # ")"
                           /\ Closing(i) # {}}
         IN  {SubSeq(content, i + 1, SetMin(Closing(i)) - 1) : i \in starts}

IsSeparatorLine(line) ==
    /\ "-" \in Range(line)
    /\ Range(Strip(line)) \subseteq {"|", "-", ":", " "}

extract_existing_paper_titles(files, file_path) ==
    IF ~Exists(files, file_path) THEN {}
    ELSE IF Unreadable(files[file_path]) THEN {}
    ELSE LET lines == Split(files[file_path], "\n")
             rows == SelectSeq(lines, LAMBDA line :
                                  "|" \in Range(line) /\ ~IsSeparatorLine(line))
             data == IF rows = <<>> THEN <<>> ELSE Tail(rows)
             TitleOf(line) == Strip(Split(line, "|")[1])
         IN  {Lower(Strip(TitleOf(data[i]))) :
                 i \in {k \in 1..Len(data) : TitleOf(data[k]) # <<>>}}

filter_new_papers_by_link(papers, existing_links, existing_titles) ==
    SelectSeq(papers, LAMBDA paper : ~(paper.entry_id \in existing_links))

filter_new_papers(papers, existing_links, existing_titles) ==
    SelectSeq(papers, LAMBDA paper :
                 ~(\/ paper.entry_id \in existing_links
                   \/ Lower(Strip(paper.title)) \in existing_titles))

(***************************************************************************)
(* Smart expansion (utils.py).  The archive is the list of papers of the   *)
(* query, most recent first; a search returns its first max_results        *)
(* entries, or nothing when the request fails.                             *)
(***************************************************************************)
MAX_EXPANSION_RESULTS == 25

search_arxiv(archive, max_results, fails) ==
    IF fails THEN <<>> ELSE Prefix(archive, max_results)

expanded_results(max_results) ==
    IF max_results * 3 < MAX_EXPANSION_RESULTS
    THEN max_results * 3
    ELSE MAX_EXPANSION_RESULTS

apply_smart_expansion_unclipped(papers, original_count, max_results, papers_expanded, existing_links, existing_titles) ==
    IF Len(papers) = 0 /\ original_count > 0
    THEN [papers |-> filter_new_papers(papers_expanded, existing_links, existing_titles),
          expansion_applied |-> TRUE]
    ELSE [papers |-> papers, expansion_applied |-> FALSE]

(* papers_expanded is what search_arxiv returns for expanded_results.      *)
apply_smart_expansion(papers, original_count, max_results, papers_expanded, existing_links, existing_titles) ==
    IF Len(papers) = 0 /\ original_count > 0
    THEN [papers |-> Prefix(filter_new_papers(papers_expanded, existing_links,
                                              existing_titles), max_results),
          expansion_applied |-> TRUE]
    ELSE [papers |-> papers, expansion_applied |-> FALSE]

collect_and_filter_papers(archive, max_results, existing_links, existing_titles, fails, fails_expanded) ==
    LET papers == search_arxiv(archive, max_results, fails)
        papers_expanded ==
            search_arxiv(archive, expanded_results(max_results), fails_expanded)
    IN  IF existing_links # {} \/ existing_titles # {}
        THEN apply_smart_expansion(
                 filter_new_papers(papers, existing_links, existing_titles),
                 Len(papers), max_results, papers_expanded,
                 existing_links, existing_titles)
        ELSE [papers |-> papers, expansion_applied |-> FALSE]

collect_paper_data(papers) ==
    LET kept == SelectSeq(papers, LAMBDA paper : paper.summary # <<>>)
    IN  [i \in 1..Len(kept) |->
            [title |-> kept[i].title, arxiv_url |-> kept[i].entry_id]]

(***************************************************************************)
(* ContentWindower (data_processor.py).  Full texts are spelled character  *)
(* by character.  A heading pattern is the list of the texts it accepts in *)
(* lower case, its runs of white space written as one space.               *)
(***************************************************************************)
STRIP_REFERENCES == TRUE

MAX_CONCLUSIONS_LENGTH == 3000

IsDigit(c) == c \in {"0", "1", "2", "3", "4", "5", "6", "7", "8", "9"}

IsLetter(c) == LowerChar(c) \in Range(LowerCase)

ref_patterns ==
    <<<<"r", "e", "f", "e", "r", "e", "n", "c", "e", "s">>,
      <<"r", "e", "f", "e", "r", "e", "n", "c", "e", "s">>,
      <<"b", "i", "b", "l", "i", "o", "g", "r", "a", "p", "h", "y">>,
      <<"b", "i", "b", "l", "i", "o", "g", "r", "a", "p", "h", "y">>,
      <<"r", "e", "f", "e", "r", "e", "n", "c", "e", " ", "l", "i", "s", "t">>,
      <<"r", "e", "f", "e", "r", "e", "n", "c", "e", " ", "l", "i", "s", "t">>>>

conclusion_patterns ==
    <<{<<"c", "o", "n", "c", "l", "u", "s", "i", "o", "n">>,
       <<"c", "o", "n", "c", "l", "u", "s", "i", "o", "n", "s">>},
      {<<"d", "i", "s", "c", "u", "s", "s", "i", "o", "n">>,
       <<"d", "i", "s", "c", "u", "s", "s", "i", "o", "n", "s">>,
       <<"d", "i", "s", "c", "u", "s", "s", "i", "o", "n", " ", "a", "n", "d", " ", "c", "o", "n", "c", "l", "u", "s", "i", "o", "n">>,
       <<"d", "i", "s", "c", "u", "s", "s", "i", "o", "n", " ", "a", "n", "d", " ", "c", "o", "n", "c", "l", "u", "s", "i", "o", "n", "s">>,
       <<"d", "i", "s", "c", "u", "s", "s", "i", "o", "n", "s", " ", "a", "n", "d", " ", "c", "o", "n", "c", "l", "u", "s", "i", "o", "n">>,
       <<"d", "i", "s", "c", "u", "s", "s", "i", "o", "n", "s", " ", "a", "n", "d", " ", "c", "o", "n", "c", "l", "u", "s", "i", "o", "n", "s">>},
      {<<"s", "u", "m", "m", "a", "r", "y">>,
       <<"s", "u", "m", "m", "a", "r", "y", " ", "a", "n", "d", " ", "c", "o", "n", "c", "l", "u", "s", "i", "o", "n">>,
       <<"s", "u", "m", "m", "a", "r", "y", " ", "a", "n", "d", " ", "c", "o", "n", "c", "l", "u", "s", "i", "o", "n", "s">>},
      {<<"c", "o", "n", "c", "l", "u", "d", "i", "n", "g", " ", "r", "e", "m", "a", "r", "k">>,
       <<"c", "o", "n", "c", "l", "u", "d", "i", "n", "g", " ", "r", "e", "m", "a", "r", "k", "s">>},
      {<<"f", "i", "n", "a", "l", " ", "r", "e", "m", "a", "r", "k">>,
       <<"f", "i", "n", "a", "l", " ", "r", "e", "m", "a", "r", "k", "s">>},
      {<<"r", "e", "s", "u", "l", "t", " ", "a", "n", "d", " ", "d", "i", "s", "c", "u", "s", "s", "i", "o", "n">>,
       <<"r", "e", "s", "u", "l", "t", "s", " ", "a", "n", "d", " ", "d", "i", "s", "c", "u", "s", "s", "i", "o", "n">>,
       <<"r", "e", "s", "u", "l", "t", " ", "a", "n", "d", " ", "d", "i", "s", "c", "u", "s", "s", "i", "o", "n", "s">>,
       <<"r", "e", "s", "u", "l", "t", "s", " ", "a", "n", "d", " ", "d", "i", "s", "c", "u", "s", "s", "i", "o", "n", "s">>},
      {<<"o", "u", "t", "l", "o", "o", "k">>}>>

special_sections ==
    {<<"r", "e", "f", "e", "r", "e", "n", "c", "e">>,
     <<"r", "e", "f", "e", "r", "e", "n", "c", "e", "s">>,
     <<"b", "i", "b", "l", "i", "o", "g", "r", "a", "p", "h", "y">>,
     <<"a", "c", "k", "n", "o", "w", "l", "e", "d", "g", "m", "e", "n", "t">>,
     <<"a", "c", "k", "n", "o", "w", "l", "e", "d", "g", "m", "e", "n", "t", "s">>,
     <<"a", "p", "p", "e", "n", "d", "i", "x">>}

NoMatch == [start |-> 0, end |-> 0]

(* A value used several times is bound once, as the only element of a set. *)
SkipSpace(text, i) ==
    LET stop == {j \in i..Len(text) : ~IsSpace(text[j])}
    IN  IF stop = {} THEN Len(text) + 1 ELSE SetMin(stop)

SkipDigits(text, i) ==
    LET stop == {j \in i..Len(text) : ~IsDigit(text[j])}
    IN  IF stop = {} THEN Len(text) + 1 ELSE SetMin(stop)

LiteralAt(text, i, literal) ==
    /\ i + Len(literal) - 1 <= Len(text)
    /\ \A k \in 1..Len(literal) : LowerChar(text[i + k - 1]) = literal[k]

(* Where the text after a section number \d+\.?\s+ at j starts, if any.    *)
AfterNumber(text, j) ==
    UNION { { SkipSpace(text, e) :
                e \in {x \in {IF d <= Len(text) /\ text[d] = "." THEN d + 1 ELSE d} :
                          d > j /\ x <= Len(text) /\ IsSpace(text[x])} } :
            d \in {SkipDigits(text, j)} }

(* Where a match of \s*\n at k ends, if any.                               *)
AfterLineEnd(text, k) ==
    { SetMax(breaks) + 1 :
        breaks \in { {n \in k..(e - 1) : text[n] = "\n"} : e \in {SkipSpace(text, k)} }
                   \ {{}} }

HeadingStart(text, j, literal, numbered) ==
    {s \in {j} \cup (IF numbered THEN AfterNumber(text, j) ELSE {}) :
        LiteralAt(text, s, literal)}

(* Where a match of \n\s*(number)?literal:?\s*\n at i ends, if any.        *)
HeadingEnd(text, i, literal, numbered, colon) ==
    IF text[i] # "\n" THEN {}
    ELSE UNION { UNION { AfterLineEnd(text, k) :
                           k \in {IF /\ colon
                                     /\ s + Len(literal) <= Len(text)
                                     /\ text[s + Len(literal)] = ":"
                                  THEN s + Len(literal) + 1
                                  ELSE s + Len(literal)} } :
                 s \in UNION { HeadingStart(text, j, literal, numbered) :
                                 j \in {SkipSpace(text, i + 1)} } }

Leftmost(matches) ==
    IF matches = {} THEN NoMatch
    ELSE CHOOSE m \in matches : \A other \in matches : m.start <= other.start

Search(text, literals, numbered, colon) ==
    CHOOSE match \in
        { Leftmost(matches) :
            matches \in { UNION { { [start |-> i, end |-> e] :
                                      e \in UNION { HeadingEnd(text, i, literal,
                                                               numbered, colon) :
                                                      literal \in literals } } :
                                  i \in 1..Len(text) } } } : TRUE

(* A match of \n\s*\d+\.?\s+[A-Z][^.\n]*\n at i, letters of any case.      *)
NumberedHeading(text, i) ==
    IF text[i] # "\n" THEN {}
    ELSE { [start |-> i, end |-> line[2] + 1] :
             line \in { l \in UNION { { <<t, SetMin(breaks)>> :
                                          breaks \in { {n \in (t + 1)..Len(text) :
                                                          text[n] = "\n"} } \ {{}} } :
                                      t \in { x \in UNION { AfterNumber(text, j) :
                                                              j \in {SkipSpace(text, i + 1)} } :
                                                 x <= Len(text) /\ IsLetter(text[x]) } } :
                           \A x \in (l[1] + 1)..(l[2] - 1) : text[x] # "." } }

SearchNumbered(text) ==
    CHOOSE match \in
        { Leftmost(matches) :
            matches \in { UNION { NumberedHeading(text, i) : i \in 1..Len(text) } } } :
                TRUE

FirstMatch(matches) ==
    LET hits == {p \in 1..Len(matches) : matches[p].start # 0}
    IN  IF hits = {} THEN NoMatch ELSE matches[SetMin(hits)]

strip_references_section(text) ==
    IF ~STRIP_REFERENCES THEN text
    ELSE CHOOSE stripped_text \in
             { IF match.start = 0 THEN text
               ELSE Strip(SubSeq(text, 1, match.start - 1)) :
                 match \in { FirstMatch(matches) :
                               matches \in { [p \in 1..Len(ref_patterns) |->
                                                Search(text, {ref_patterns[p]},
                                                       FALSE, FALSE)] } } } : TRUE

SectionEnd(rest) ==
    CHOOSE section \in
        { IF match.start = 0 THEN rest ELSE SubSeq(rest, 1, match.start - 1) :
            match \in { FirstMatch(matches) :
                          matches \in { << SearchNumbered(rest),
                                          Search(rest, special_sections,
                                                 FALSE, FALSE) >> } } } : TRUE

Capped(conclusions) ==
    IF Len(conclusions) > MAX_CONCLUSIONS_LENGTH
    THEN SubSeq(conclusions, 1, MAX_CONCLUSIONS_LENGTH) \o <<"...">>
    ELSE conclusions

SectionOf(text, p) ==
    CHOOSE conclusions \in
        UNION { IF match.start = 0 THEN {<<>>}
                ELSE { Capped(section) :
                         section \in { Strip(SectionEnd(rest)) :
                                         rest \in {SubSeq(text, match.end, Len(text))} } } :
                match \in {Search(text, conclusion_patterns[p], TRUE, TRUE)} } : TRUE

(* The conclusions found, or the empty text for None.                      *)
extract_conclusions_section(text) ==
    CHOOSE conclusions \in
        { IF \A p \in 1..Len(sections) : sections[p] = <<>> THEN <<>>
          ELSE sections[SetMin({p \in 1..Len(sections) : sections[p] # <<>>})] :
            sections \in { [p \in 1..Len(conclusion_patterns) |-> SectionOf(text, p)] } } :
                TRUE

TitleLabel == <<"Title:", " ">>
AbstractLabel == <<"\n", "\n", "Abstract:", " ">>
ContentLabel == <<"\n", "\n", "Content:", " ">>
ConclusionsLabel == <<"\n", "\n", "[CONCLUSIONS SECTION]:", "\n">>
MainContentLabel == <<"\n", "\n", "[MAIN CONTENT]:", "\n">>

(* The allocation without the space reserved for the conclusions block.    *)
ProcessedContent_unreserved(title, abstract, content_no_refs, conclusions, max_content_length) ==
    LET head == TitleLabel \o title \o AbstractLabel \o abstract
    IN  IF Len(content_no_refs) > max_content_length
        THEN IF conclusions # <<>>
             THEN head \o ConclusionsLabel \o conclusions \o MainContentLabel
                  \o Prefix(content_no_refs, max_content_length)
             ELSE head \o ContentLabel \o Prefix(content_no_refs, max_content_length)
        ELSE head \o ContentLabel \o content_no_refs

ProcessedContent(title, abstract, content_no_refs, conclusions, max_content_length) ==
    LET conclusions_content == ConclusionsLabel \o conclusions
        remaining_space == max_content_length - TextLen(conclusions_content)
        head == TitleLabel \o title \o AbstractLabel \o abstract
    IN  IF Len(content_no_refs) > max_content_length
        THEN IF conclusions # <<>>
             THEN head \o conclusions_content \o MainContentLabel
                  \o Prefix(content_no_refs,
                            IF remaining_space > 0 THEN remaining_space ELSE 0)
             ELSE head \o ContentLabel \o Prefix(content_no_refs, max_content_length)
        ELSE head \o ContentLabel \o content_no_refs

WindowedContent(title, abstract, content_no_refs, max_content_length) ==
    CHOOSE processed_content \in
        {ProcessedContent(title, abstract, content_no_refs, conclusions,
                          max_content_length) :
            conclusions \in {extract_conclusions_section(content_no_refs)}} : TRUE

process_content_for_llm(title, abstract, content, max_content_length) ==
    CHOOSE processed_content \in
        {WindowedContent(title, abstract, content_no_refs, max_content_length) :
            content_no_refs \in {strip_references_section(content)}} : TRUE

(***************************************************************************)
(* Inputs.                                                                 *)
(***************************************************************************)
Days == << [day |-> 5, month |-> 11, year |-> 2026],
           [day |-> 6, month |-> 11, year |-> 2026] >>

Now == Days[today]

DefaultName == <<"r", ".", "m", "d">>

BaseNames == { DefaultName, <<"r">> }

ArxivUrl(id) == <<ARXIV_PREFIX, id>>

Q1 == <<"q">>
Q1n == <<"q", "\n">>
Q2 == <<"p">>
Qpipe == <<"p", "|", "q">>

Schemas ==
    { <<>>, <<Q1>>, <<Q1n>>, <<Q2>>, <<Q1, Q2>>, <<Q2, Q1>>, <<Qpipe>> }

Answers(questions, answer) == [q \in Range(questions) |-> answer]

Record(title, id, questions, answer) ==
    [title |-> title, arxiv_url |-> ArxivUrl(id),
     llm_answers |-> Answers(questions, answer)]

SeqsUpTo(S, n) == UNION {[1..k -> S] : k \in 0..n}

NoCall ==
    [op |-> "none", questions |-> <<>>, results |-> <<>>, filename |-> <<>>,
     before |-> NoFiles, ret |-> <<>>, now |-> Days[1]]

Paper(title, id, summary) ==
    [title |-> title, entry_id |-> ArxivUrl(id), summary |-> summary]

PaperA == Paper(<<"a">>, "1", <<"s">>)
PaperA2 == Paper(<<"A">>, "2", <<"s">>)
PaperB == Paper(<<"b">>, "3", <<"s">>)
PaperNoAbstract == Paper(<<"c">>, "4", <<>>)

(***************************************************************************)
(* Calls of the ResultProcessor API.                                       *)
(***************************************************************************)
SaveCall(results, questions) ==
    LET filename == get_output_filename(fs, base, questions, Now)
        after == save_results(fs, results, questions, base, Now)
    IN  /\ calls < MaxCalls
        /\ fs' = after
        /\ calls' = calls + 1
        /\ last' = [op |-> "save", questions |-> questions, results |-> results,
                    filename |-> filename, before |-> fs, ret |-> filename,
                    now |-> Now]
        /\ written' = [n \in DOMAIN written \cup {filename} |->
                          IF n = filename
                          THEN [questions |-> questions, results |-> results,
                                appended |-> /\ filename = base
                                             /\ Exists(fs, filename)
                                             /\ Len(SplitLines(Strip(fs[filename]))) >= 2]
                          ELSE written[n]]
        /\ UNCHANGED <<today, base, pipeline>>

ResolveCall(questions) ==
    /\ last' = [op |-> "resolve", questions |-> questions, results |-> <<>>,
                filename |-> base, before |-> fs,
                ret |-> get_output_filename(fs, base, questions, Now), now |-> Now]
    /\ UNCHANGED <<fs, today, base, written, calls, pipeline>>

ExtractCall(name) ==
    /\ last' = [op |-> "extract", questions |-> <<>>, results |-> <<>>,
                filename |-> name, before |-> fs,
                ret |-> extract_questions_from_existing_file(fs, name), now |-> Now]
    /\ UNCHANGED <<fs, today, base, written, calls, pipeline>>

NextDay ==
    /\ today < Len(Days)
    /\ today' = today + 1
    /\ UNCHANGED <<fs, base, last, written, calls, pipeline>>

TableInit(names) ==
    /\ fs = NoFiles
    /\ today = 1
    /\ base \in names
    /\ last = NoCall
    /\ written = NoFiles
    /\ calls = 0
    /\ LLM_QUESTIONS = <<>>
    /\ checkpoint = NoFile
    /\ prompts = NoFile
    /\ llm_file = NoFile

(***************************************************************************)
(* SchemaResolver: one record at most per save, every schema.              *)
(***************************************************************************)
SchemaResults(questions) ==
    { <<>>, <<Record(<<"a">>, "1", questions, <<"x">>)>> }

SchemaSave == \E questions \in Schemas :
                  \E results \in SchemaResults(questions) : SaveCall(results, questions)

SchemaResolve == \E questions \in Schemas : ResolveCall(questions)

SchemaExtract == \E name \in DOMAIN fs : ExtractCall(name)

SchemaNext == SchemaSave \/ SchemaResolve \/ SchemaExtract \/ NextDay

SchemaInit == TableInit({DefaultName})

SpecSchema == SchemaInit /\ [][SchemaNext]_vars

(***************************************************************************)
(* What the claims expect, written out independently of the code.          *)
(***************************************************************************)
ExpectedSuffix(now) ==
    IF now = Days[1] THEN <<"0", "5", "1", "1", "2", "6">>
    ELSE <<"0", "6", "1", "1", "2", "6">>

ExpectedRotated(name, now) ==
    IF name = DefaultName
    THEN <<"r", "_">> \o ExpectedSuffix(now) \o <<".", "m", "d">>
    ELSE <<"r", "_">> \o ExpectedSuffix(now)

NormalizedSchema(questions) ==
    [i \in 1..Len(questions) |-> Strip(ReplaceNewline(questions[i]))]

OneQuestionChanged(s, t) ==
    /\ Len(s) = Len(t)
    /\ Cardinality({i \in 1..Len(s) : s[i] # t[i]}) = 1

(* C3: get_output_filename returns base when no file exists at the base    *)
(* path, base when the schema parsed from the existing header equals the   *)
(* configured schema after normalization, and stem_ddmmyy.ext otherwise.   *)
C3_OutputFilename ==
    last.op = "resolve" =>
        last.ret =
            IF ~Exists(last.before, last.filename) THEN last.filename
            ELSE IF NormalizedSchema(
                        extract_questions_from_existing_file(last.before, last.filename))
                    = NormalizedSchema(last.questions)
            THEN last.filename
            ELSE ExpectedRotated(last.filename, last.now)

C3_Witness ==
    /\ last.op = "resolve"
    /\ Exists(last.before, last.filename)
    /\ last.now = Days[2]
    /\ last.questions = <<Q1, Q2>>
    /\ last.ret = <<"r", "_", "0", "6", "1", "1", "2", "6", ".", "m", "d">>

(* C4: for a store file written by save_results under schema S, resolving  *)
(* again with S returns the base filename, and resolving with S changed in *)
(* the text of one question returns the _ddmmyy name of the current date.  *)
C4_ResolveAfterSave ==
    (/\ last.op = "resolve"
     /\ Exists(fs, base)
     /\ base \in DOMAIN written) =>
        /\ last.questions = written[base].questions => last.ret = base
        /\ OneQuestionChanged(written[base].questions, last.questions)
              => last.ret = ExpectedRotated(base, last.now)

(* C5: a fresh store written from N >= 1 records under schema S, re-parsed *)
(* by extract_questions_from_existing_file, gives the normalized S back.   *)
C5_HeaderRoundTrip ==
    (/\ last.op = "extract"
     /\ last.filename \in DOMAIN written
     /\ ~written[last.filename].appended
     /\ Len(written[last.filename].results) >= 1) =>
        last.ret = NormalizedSchema(written[last.filename].questions)

(***************************************************************************)
(* Header parsing: get_output_filename against a file found at the base    *)
(* path, well formed or not, under every schema.                           *)
(***************************************************************************)
FoundStores ==
    { <<>>, <<"\n">>, <<" ", "\n", "q">>, <<"q">>, <<"q", "\n", "-", "\n">>,
      NoResultsText, <<Undecodable>>, <<"|">>,
      TITLE_COLUMN \o ColumnSep \o LINK_COLUMN \o <<"\n">>,
      TITLE_COLUMN \o ColumnSep \o LINK_COLUMN \o ColumnSep \o <<"q">>,
      generate_markdown_table(<<Record(<<"a">>, "1", <<Q1>>, <<"x">>)>>, <<Q1>>, TRUE) }

HeaderInit ==
    /\ fs \in {WriteFile(NoFiles, DefaultName, content) : content \in FoundStores}
    /\ today = 1
    /\ base = DefaultName
    /\ last = NoCall
    /\ written = NoFiles
    /\ calls = 0
    /\ LLM_QUESTIONS = <<>>
    /\ checkpoint = NoFile
    /\ prompts = NoFile
    /\ llm_file = NoFile

HeaderNext == SchemaResolve \/ SchemaExtract \/ NextDay

SpecHeader == HeaderInit /\ [][HeaderNext]_vars

(* A header is malformed when the file is empty or cannot be read, or when *)
(* its first line has fewer than two columns between pipes.                *)
MalformedHeader(content) ==
    \/ content = <<>>
    \/ Undecodable \in Range(content)
    \/ Len(Split(Strip(Head(Split(content, "\n"))), "|")) < 2

(* C20: when the file at the base path has a malformed header,             *)
(* get_output_filename returns stem_ddmmyy.ext and never the base          *)
(* filename, whatever the configured schema.                               *)
C20_MalformedRotates ==
    (/\ last.op = "resolve"
     /\ Exists(last.before, last.filename)
     /\ MalformedHeader(last.before[last.filename])) =>
        last.ret = ExpectedRotated(last.filename, last.now)

(***************************************************************************)
(* Saving over a file found at the base path, well formed or not.          *)
(***************************************************************************)
OverwriteNext == SchemaSave \/ NextDay

SpecOverwrite == HeaderInit /\ [][OverwriteNext]_vars

PhysicalLines(content) ==
    LET pieces == Split(content, "\n")
    IN  IF content # <<>> /\ content[Len(content)] = "\n"
        THEN SubSeq(pieces, 1, Len(pieces) - 1)
        ELSE pieces

ExpectedHeaderLines(questions) ==
    LET cells == <<<<"Paper Title">>, <<"arXiv Link">>>>
                     \o [i \in 1..Len(questions) |-> ReplaceNewline(questions[i])]
    IN  <<Join(cells, <<" ", "|", " ">>),
          Join([i \in 1..Len(cells) |-> Dashes(TextLen(cells[i]))], <<" ", "|", " ">>)>>

RECURSIVE ExpectedRecordLines(_, _)
ExpectedRecordLines(results, questions) ==
    IF results = <<>> THEN <<>>
    ELSE <<Join(<<Head(results).title,
                  <<"[Link](">> \o Head(results).arxiv_url \o <<")">>>>
                \o [i \in 1..Len(questions) |->
                       ReplaceNewline(Head(results).llm_answers[questions[i]])],
                <<" ", "|", " ">>)>>
         \o ExpectedRecordLines(Tail(results), questions)

(* C21: a save that resolves to an existing file of fewer than two lines   *)
(* replaces the whole file by a fresh table: the header and the separator  *)
(* of the current schema, then the new rows.                               *)
C21_MalformedOverwritten ==
    (/\ last.op = "save"
     /\ last.filename = base
     /\ Exists(last.before, base)
     /\ Len(PhysicalLines(last.before[base])) < 2) =>
        fs[base] = Join(ExpectedHeaderLines(last.questions)
                        \o ExpectedRecordLines(last.results, last.questions),
                        <<"\n">>) \o <<"\n">>

(* The data rows of a store: its lines below the header and the separator. *)
DataRows(content) ==
    LET lines == PhysicalLines(content)
    IN  {lines[i] : i \in 3..Len(lines)}

(* C27: every data row that a store file, base or rotated, held before a   *)
(* save is still in that file, unchanged, after it; also when the save is  *)
(* the second of the day to resolve to the same rotated file.              *)
C27_RowsKept ==
    last.op = "save" =>
        \A name \in DOMAIN last.before :
            /\ Exists(fs, name)
            /\ DataRows(last.before[name]) \subseteq DataRows(fs[name])

(***************************************************************************)
(* StoreWriter: save_results called with up to MaxRecords records whose    *)
(* titles and answers may hold line breaks, under two schemas.             *)
(***************************************************************************)
WriterSchemas == { <<Q1>>, <<Q1, Q2>> }

WriterRecords(questions) ==
    { Record(<<"a">>, "1", questions, <<"x", "\n", "y">>),
      Record(<<"b", "\n", "c">>, "2", questions, <<"x">>) }

WriterSave == \E questions \in WriterSchemas :
                  \E results \in SeqsUpTo(WriterRecords(questions), MaxRecords) :
                      SaveCall(results, questions)

WriterNext == WriterSave \/ NextDay

WriterInit == TableInit(BaseNames)

SpecWriter == WriterInit /\ [][WriterNext]_vars

(* The physical lines of a file: the pieces between line breaks, without   *)
(* the empty piece after a final line break.                               *)
FileLines(content) ==
    LET pieces == Split(content, "\n")
    IN  IF content # <<>> /\ content[Len(content)] = "\n"
        THEN SubSeq(pieces, 1, Len(pieces) - 1)
        ELSE pieces

RECURSIVE ExpectedRows(_, _)
ExpectedRows(results, questions) ==
    IF results = <<>> THEN <<>>
    ELSE <<Join(<<Head(results).title,
                  <<"[Link](">> \o Head(results).arxiv_url \o <<")">>>>
                \o [i \in 1..Len(questions) |->
                       ReplaceNewline(Head(results).llm_answers[questions[i]])],
                <<" ", "|", " ">>)>>
         \o ExpectedRows(Tail(results), questions)

(* C7: an append to a schema-compatible store of at least two lines leaves *)
(* the old header, the old separator, then the new rows in record order,   *)
(* then every old data row unchanged and in its old order.                 *)
C7_AppendBelowSeparator ==
    (/\ last.op = "save"
     /\ written[last.filename].appended) =>
        LET old == FileLines(last.before[last.filename])
        IN  fs[last.filename]
              = Join(<<old[1], old[2]>>
                     \o ExpectedRows(last.results, last.questions)
                     \o SubSeq(old, 3, Len(old)), <<"\n">>) \o <<"\n">>

(* C8: a write to an absent or rotated file with N >= 1 records gives      *)
(* exactly N + 2 lines: the header (labels, then the normalized questions),*)
(* a separator of dashes as wide as the header cells, and one row per      *)
(* record, in order, holding that record's title and link verbatim.        *)
C8_FreshTable ==
    (/\ last.op = "save"
     /\ Len(last.results) >= 1
     /\ (~Exists(last.before, last.filename) \/ last.filename # base)) =>
        LET lines == FileLines(fs[last.filename])
            n == Len(last.results)
            hcells == Split(lines[1], "|")
            scells == Split(lines[2], "|")
        IN  /\ Len(lines) = n + 2
            /\ [i \in 1..Len(hcells) |-> Strip(hcells[i])]
                 = <<<<"Paper Title">>, <<"arXiv Link">>>>
                   \o NormalizedSchema(last.questions)
            /\ Len(scells) = Len(hcells)
            /\ \A i \in 1..Len(scells) :
                  /\ Range(Strip(scells[i])) = {"-"}
                  /\ Len(Strip(scells[i])) = TextLen(Strip(hcells[i]))
            /\ \A i \in 1..n :
                  /\ Contains(lines[i + 2], last.results[i].title)
                  /\ Contains(lines[i + 2],
                              <<"[Link](">> \o last.results[i].arxiv_url \o <<")">>)

(* C22: every record of a save adds exactly one physical line to the store *)
(* file, whatever line breaks its title and answers hold, and that line    *)
(* has the title cell, the link cell and one answer cell per question.     *)
C22_OneLinePerRecord ==
    (/\ last.op = "save"
     /\ Len(last.results) >= 1) =>
        LET lines == PhysicalLines(fs[last.filename])
            n == Len(last.results)
            old == IF written[last.filename].appended
                   THEN Len(PhysicalLines(last.before[last.filename]))
                   ELSE 2
        IN  /\ Len(lines) = old + n
            /\ \A i \in 1..n :
                  Len(Split(lines[2 + i], "|")) = 2 + Len(last.questions)

(***************************************************************************)
(* DuplicateIndex: filter_new_papers on every batch of up to MaxRecords    *)
(* papers against every set of stored links and normalized titles.         *)
(***************************************************************************)
FilterPapers == {PaperA, PaperA2, PaperB}

FilterLinks == SUBSET {ArxivUrl("1"), ArxivUrl("3"), ArxivUrl("9")}

FilterTitles == SUBSET {<<"a">>, <<"b">>}

FilterCall(papers, existing_links, existing_titles) ==
    /\ last' = [op |-> "filter", questions |-> <<>>, results |-> papers,
                filename |-> <<>>, before |-> fs,
                ret |-> filter_new_papers(papers, existing_links, existing_titles),
                now |-> Now, links |-> existing_links, titles |-> existing_titles]
    /\ UNCHANGED <<fs, today, base, written, calls, pipeline>>

FilterNext ==
    /\ last.op = "none"
    /\ \E papers \in SeqsUpTo(FilterPapers, MaxRecords) :
           \E existing_links \in FilterLinks :
               \E existing_titles \in FilterTitles :
                   FilterCall(papers, existing_links, existing_titles)

FilterInit == TableInit({DefaultName})

SpecFilter == FilterInit /\ [][FilterNext]_vars

IsNew(paper, links, titles) ==
    /\ paper.entry_id \notin links
    /\ \A t \in titles : t # Lower(Strip(paper.title))

(* C2: filter_new_papers(papers, L, T) returns exactly the papers whose    *)
(* link is not in L and whose normalized title is not in T, each as often  *)
(* as it is listed, in the order of the input.                             *)
C2_FilterExact ==
    last.op = "filter" =>
        LET papers == last.results
            kept == {i \in 1..Len(papers) : IsNew(papers[i], last.links, last.titles)}
            Rank(i) == Cardinality({j \in kept : j <= i})
        IN  /\ Len(last.ret) = Cardinality(kept)
            /\ \A i \in kept : last.ret[Rank(i)] = papers[i]

C2_Witness ==
    /\ last.op = "filter"
    /\ last.results = <<PaperA2, PaperB>>
    /\ last.links = {ArxivUrl("9")}
    /\ last.titles = {<<"a">>}
    /\ last.ret = <<PaperB>>

(***************************************************************************)
(* SmartExpansion: collect_and_filter_papers on archives that begin with   *)
(* stored papers, for small requests and for requests whose widened fetch  *)
(* meets MAX_EXPANSION_RESULTS.                                            *)
(***************************************************************************)
MaxStored == 3

StoredRuns == (0..MaxStored) \cup {MAX_EXPANSION_RESULTS - 1, MAX_EXPANSION_RESULTS}

Archives ==
    { [i \in 1..k |-> PaperA] \o recent :
          k \in StoredRuns,
          recent \in SeqsUpTo({PaperA, PaperB, PaperNoAbstract}, MaxRecords) }

Requests ==
    (1..MaxRecords) \cup {(MAX_EXPANSION_RESULTS + 2) \div 3, MAX_EXPANSION_RESULTS + 1}

ExpandCall(archive, max_results, existing_links, existing_titles, fails, fails_expanded) ==
    /\ last' = [op |-> "expand", questions |-> <<>>, results |-> <<>>,
                filename |-> <<>>, before |-> fs, now |-> Now,
                archive |-> archive, max_results |-> max_results,
                links |-> existing_links, titles |-> existing_titles,
                fails |-> fails, fails_expanded |-> fails_expanded,
                ret |-> collect_and_filter_papers(archive, max_results, existing_links,
                                                  existing_titles, fails, fails_expanded)]
    /\ UNCHANGED <<fs, today, base, written, calls, pipeline>>

ExpandNext ==
    /\ last.op = "none"
    /\ \E archive \in Archives :
           \E max_results \in Requests :
               \E existing_links \in {{}, {ArxivUrl("1")}} :
                   \E existing_titles \in {{}, {<<"a">>}} :
                       \E fails, fails_expanded \in BOOLEAN :
                           ExpandCall(archive, max_results, existing_links,
                                      existing_titles, fails, fails_expanded)

ExpandInit == TableInit({DefaultName})

SpecExpand == ExpandInit /\ [][ExpandNext]_vars

(* The papers of a list that are not in the store, in the order of the     *)
(* list.                                                                   *)
RECURSIVE Survivors(_, _, _)
Survivors(papers, links, titles) ==
    IF papers = <<>> THEN <<>>
    ELSE (IF IsNew(Head(papers), links, titles) THEN <<Head(papers)>> ELSE <<>>)
         \o Survivors(Tail(papers), links, titles)

(* C14: smart expansion never returns more than max_results candidates:    *)
(* when it widens the search, it returns the first max_results survivors   *)
(* of the widened fetch (all of them when they are fewer), in the order of *)
(* the fetch.                                                              *)
C14_ExpansionClipped ==
    last.op = "expand" =>
        /\ Len(last.ret.papers) <= last.max_results
        /\ last.ret.expansion_applied =>
              LET widened == IF last.fails_expanded THEN <<>>
                             ELSE SubSeq(last.archive, 1,
                                         SetMin({Len(last.archive), 3 * last.max_results,
                                                 MAX_EXPANSION_RESULTS}))
                  survivors == Survivors(widened, last.links, last.titles)
              IN  last.ret.papers
                    = SubSeq(survivors, 1, SetMin({Len(survivors), last.max_results}))

(* C29: the count requested by the expansion fetch is never smaller than   *)
(* the count max_results of the first fetch.                               *)
C29_ExpansionWidens ==
    (/\ last.op = "expand"
     /\ last.ret.expansion_applied) =>
        expanded_results(last.max_results) >= last.max_results

C14_Witness ==
    /\ last.op = "expand"
    /\ last.max_results = 1
    /\ last.archive = <<PaperA, PaperB, PaperNoAbstract>>
    /\ last.ret.expansion_applied
    /\ last.ret.papers = <<PaperB>>

(***************************************************************************)
(* ciphr_hybrid.main.  A run is one action: it resolves the output name,   *)
(* filters and collects the batch, reconciles the LLM results and saves.   *)
(***************************************************************************)
NewPapers(files, papers) ==
    LET final_filename == get_output_filename(files, base, LLM_QUESTIONS, Now)
        should_append == final_filename = base /\ Exists(files, final_filename)
        existing_links == IF should_append
                          THEN extract_existing_arxiv_links(files, final_filename)
                          ELSE {}
        existing_titles == IF should_append
                           THEN extract_existing_paper_titles(files, final_filename)
                           ELSE {}
    IN  IF should_append /\ (existing_links # {} \/ existing_titles # {})
        THEN filter_new_papers(papers, existing_links, existing_titles)
        ELSE papers

WrittenAfter(filename, results) ==
    [n \in DOMAIN written \cup {filename} |->
        IF n = filename
        THEN [questions |-> LLM_QUESTIONS, results |-> results,
              appended |-> /\ filename = base
                           /\ Exists(fs, filename)
                           /\ Len(SplitLines(Strip(fs[filename]))) >= 2]
        ELSE written[n]]

(* What a run did: papers is what its search returned and fetches the      *)
(* number of searches it made (main calls search_arxiv once in the collect,*)
(* full and local modes, never in process mode); content is the stripped   *)
(* text of the LLM results file, segments is llm_results_parsed before the *)
(* count is adjusted, llm_results is the list passed to combine_results.   *)
RunRecord(mode, papers, papers_data, saved, results) ==
    LET reconciles == saved /\ mode \in {"process", "full"}
        content == IF reconciles THEN Strip(llm_file.data) ELSE <<>>
    IN  [op |-> mode, questions |-> LLM_QUESTIONS, results |-> results,
         filename |-> get_output_filename(fs, base, LLM_QUESTIONS, Now),
         before |-> fs, ret |-> <<>>, now |-> Now, papers_data |-> papers_data,
         saved |-> saved, content |-> content,
         papers |-> papers, fetches |-> IF mode = "process" THEN 0 ELSE 1,
         segments |-> IF content # <<>> THEN ParsedSegments(content) ELSE <<>>,
         llm_results |-> IF reconciles
                         THEN ReconciledResults(llm_file.data, papers_data)
                         ELSE <<>>]

RunSaves(mode, papers, papers_data, results) ==
    /\ fs' = save_results(fs, results, LLM_QUESTIONS, base, Now)
    /\ written' = WrittenAfter(get_output_filename(fs, base, LLM_QUESTIONS, Now), results)
    /\ last' = RunRecord(mode, papers, papers_data, TRUE, results)

RunReturns(mode, papers, papers_data) ==
    /\ last' = RunRecord(mode, papers, papers_data, FALSE, <<>>)
    /\ UNCHANGED <<fs, written>>

RunLocal(papers, outcome) ==
    LET papers_data == collect_paper_data(NewPapers(fs, papers))
        llm_results == [i \in 1..Len(papers_data) |-> <<outcome>>]
    IN  /\ calls < MaxCalls
        /\ calls' = calls + 1
        /\ IF papers_data = <<>>
           THEN RunReturns("local", papers, papers_data)
           ELSE RunSaves("local", papers, papers_data,
                         combine_results(papers_data, llm_results, LLM_QUESTIONS))
        /\ UNCHANGED <<today, base, pipeline>>

RunCollect(papers) ==
    LET papers_data == collect_paper_data(NewPapers(fs, papers))
    IN  /\ calls < MaxCalls
        /\ calls' = calls + 1
        /\ IF papers_data = <<>>
           THEN UNCHANGED <<checkpoint, prompts>>
           ELSE /\ checkpoint' = File(papers_data)
                /\ prompts' = File(LLM_QUESTIONS)
        /\ RunReturns("collect", papers, papers_data)
        /\ UNCHANGED <<today, base, LLM_QUESTIONS, llm_file>>

(* The processing phase without its test for the LLM results file.         *)
RunProcess_unguarded ==
    /\ calls < MaxCalls
    /\ calls' = calls + 1
    /\ IF checkpoint.exists /\ ~ProcessingRaises(llm_file.data)
       THEN RunSaves("process", <<>>, checkpoint.data,
                     ProcessedResults(llm_file.data, checkpoint.data, LLM_QUESTIONS))
       ELSE RunReturns("process", <<>>, <<>>)
    /\ UNCHANGED <<today, base, pipeline>>

RunProcess ==
    /\ calls < MaxCalls
    /\ calls' = calls + 1
    /\ IF checkpoint.exists /\ llm_file.exists /\ ~ProcessingRaises(llm_file.data)
       THEN RunSaves("process", <<>>, checkpoint.data,
                     ProcessedResults(llm_file.data, checkpoint.data, LLM_QUESTIONS))
       ELSE RunReturns("process", <<>>, <<>>)
    /\ UNCHANGED <<today, base, pipeline>>

RunFull(papers) ==
    LET papers_data == collect_paper_data(NewPapers(fs, papers))
    IN  /\ calls < MaxCalls
        /\ calls' = calls + 1
        /\ IF papers_data = <<>>
           THEN /\ UNCHANGED <<checkpoint, prompts>>
                /\ RunReturns("full", papers, papers_data)
           ELSE /\ checkpoint' = File(papers_data)
                /\ prompts' = File(LLM_QUESTIONS)
                /\ IF llm_file.exists /\ ~ProcessingRaises(llm_file.data)
                   THEN RunSaves("full", papers, papers_data,
                                 ProcessedResults(llm_file.data, papers_data,
                                                  LLM_QUESTIONS))
                   ELSE RunReturns("full", papers, papers_data)
        /\ UNCHANGED <<today, base, LLM_QUESTIONS, llm_file>>

(* The external analysis step leaves its output in the LLM results file.   *)
ExternalLLM(content) ==
    /\ llm_file # File(content)
    /\ llm_file' = File(content)
    /\ UNCHANGED <<fs, today, base, last, written, calls, LLM_QUESTIONS, checkpoint,
                   prompts>>

(* The operator edits LLM_QUESTIONS between runs.                          *)
ConfigureQuestions(questions) ==
    /\ LLM_QUESTIONS # questions
    /\ LLM_QUESTIONS' = questions
    /\ UNCHANGED <<fs, today, base, last, written, calls, checkpoint, prompts,
                   llm_file>>

(***************************************************************************)
(* ResponseReconciler: result-processing runs on every checkpoint of one   *)
(* to MaxRecords documents and every content of up to MaxSegments pieces.  *)
(***************************************************************************)
Segments == { <<" ">>, <<"{A}">>, <<"w">> }

SeparatedContents ==
    { Join(parts, <<PAPER_SEPARATOR>>) :
          parts \in UNION {[1..k -> Segments] : k \in 2..MaxSegments} }

ArrayItems == { <<"{A}">>, <<"7">>, <<"w">> }

ArrayContents ==
    { <<"[">> \o Join(items, <<",">>) \o <<"]">> :
          items \in SeqsUpTo(ArrayItems, MaxSegments) }
    \cup { <<"[", "{A}">>, <<"[", "{A}", "]", "w">>, <<" ", "[", " ", "{A}", "]">>,
           <<"[", "{A}", ",", "{R}", "]">>, <<"[", "w", ",", "{R}", "]">> }

SingleContents ==
    { <<>>, <<" ">>, <<"{A}">>, <<"{B}">>, <<"{E}">>, <<"w">>, <<"{A}", "{A}">> }

(* Contents that begin like an array and hold the separator.               *)
MixedContents ==
    { <<"[", "{A}", "]", PAPER_SEPARATOR, "{A}">>,
      <<"[", "{A}", ",", "{A}", "]", PAPER_SEPARATOR, " ", PAPER_SEPARATOR, "w">> }

Contents == SeparatedContents \cup ArrayContents \cup SingleContents \cup MixedContents

(* A checkpoint file is an input of the run: it may hold zero documents.    *)
Checkpoints ==
    { collect_paper_data(papers) : papers \in SeqsUpTo({PaperA, PaperB}, MaxRecords) }

ProcessInit ==
    /\ fs = NoFiles
    /\ today = 1
    /\ base = DefaultName
    /\ last = NoCall
    /\ written = NoFiles
    /\ calls = 0
    /\ LLM_QUESTIONS \in WriterSchemas
    /\ checkpoint \in {File(papers_data) : papers_data \in Checkpoints}
    /\ prompts = File(LLM_QUESTIONS)
    /\ llm_file \in {File(content) : content \in Contents}

ProcessNext == RunProcess

SpecProcess == ProcessInit /\ [][ProcessNext]_vars

(* C6: in result-processing mode, for a non-empty checkpoint and any       *)
(* content of the LLM results file, combine_results yields one record per  *)
(* checkpointed document, in checkpoint order, with its title and link.    *)
C6_OneRecordPerDocument ==
    (/\ last.op = "process"
     /\ last.saved
     /\ last.papers_data # <<>>) =>
        /\ Len(last.results) = Len(last.papers_data)
        /\ \A i \in 1..Len(last.papers_data) :
              /\ last.results[i].title = last.papers_data[i].title
              /\ last.results[i].arxiv_url = last.papers_data[i].arxiv_url

C6_Witness ==
    /\ last.op = "process"
    /\ last.saved
    /\ Len(last.papers_data) = 2
    /\ llm_file.data = <<"{A}", PAPER_SEPARATOR, "w", PAPER_SEPARATOR, "{A}">>
    /\ Len(last.results) = 2
    /\ last.results[2].title = <<"b">>

(* The shape of a store file: a header line, a separator line of dashes,   *)
(* pipes, colons and spaces, then rows with a title cell and a link cell.  *)
IsLinkCell(cell) ==
    /\ Len(cell) >= 3
    /\ cell[1] = "[Link]("
    /\ cell[Len(cell)] = ")"

IsDataRow(line) ==
    LET cells == Split(line, "|")
    IN  /\ Len(cells) >= 2
        /\ Strip(cells[1]) # <<>>
        /\ IsLinkCell(Strip(cells[2]))

IsHeaderLine(line) ==
    LET cells == Split(line, "|")
    IN  /\ Len(cells) >= 2
        /\ Strip(cells[1]) = TITLE_COLUMN
        /\ Strip(cells[2]) = LINK_COLUMN

WellFormedStore(content) ==
    LET lines == FileLines(content)
    IN  /\ Len(lines) >= 2
        /\ IsHeaderLine(lines[1])
        /\ Range(lines[2]) \subseteq {"-", "|", ":", " "}
        /\ \A i \in 3..Len(lines) : IsDataRow(lines[i])

(* C11: after any result-processing run, also one whose checkpoint holds   *)
(* zero documents, every store file that exists is well formed: a header   *)
(* line, a separator line, then only data rows with a title and a link.    *)
C11_StoreWellFormed ==
    \A name \in DOMAIN fs : WellFormedStore(fs[name])

(* The non-empty trimmed pieces of a text between separator tokens.        *)
RECURSIVE TrimmedPieces(_, _)
TrimmedPieces(text, piece) ==
    IF text = <<>>
    THEN (IF Strip(piece) = <<>> THEN <<>> ELSE <<Strip(piece)>>)
    ELSE IF Head(text) = PAPER_SEPARATOR
    THEN (IF Strip(piece) = <<>> THEN <<>> ELSE <<Strip(piece)>>)
         \o TrimmedPieces(Tail(text), <<>>)
    ELSE TrimmedPieces(Tail(text), Append(piece, Head(text)))

(* C15: the shape of the content is decided in a fixed order.  A separator *)
(* anywhere selects the separator shape, also when the content begins with *)
(* "[": the segments are the non-empty trimmed pieces.  Without separator, *)
(* a content that begins with "[" and holds a JSON array gives the         *)
(* elements of the array.  A content without separator that does not begin *)
(* with "[" is one segment.  Segment i goes to document i.                 *)
C15_ShapePriority ==
    (/\ last.op = "process"
     /\ last.saved
     /\ last.content # <<>>) =>
        /\ PAPER_SEPARATOR \in Range(last.content)
              => last.segments = TrimmedPieces(last.content, <<>>)
        /\ (/\ PAPER_SEPARATOR \notin Range(last.content)
            /\ last.content[1] = "["
            /\ JsonArrayMatch(last.content) # <<>>
            /\ JsonArrayItems(JsonArrayMatch(last.content)) # Invalid)
              => last.segments = JsonArrayItems(JsonArrayMatch(last.content))
        /\ (/\ PAPER_SEPARATOR \notin Range(last.content)
            /\ last.content[1] # "[")
              => last.segments = <<last.content>>
        /\ \A i \in 1..Len(last.papers_data) :
              i <= Len(last.segments) =>
                 /\ last.llm_results[i] = last.segments[i]
                 /\ last.results[i].llm_answers
                      = PaperAnswers(last.papers_data[i], last.segments[i], last.questions)

C15_Witness ==
    /\ last.op = "process"
    /\ last.saved
    /\ last.content = <<"[", "{A}", "]", PAPER_SEPARATOR, "{A}">>
    /\ Len(last.papers_data) = 2
    /\ last.segments = << <<"[", "{A}", "]">>, <<"{A}">> >>
    /\ last.results[2].llm_answers[Q1] = <<"x">>

IsNoResultSentinel(segment, questions) ==
    /\ Len(segment) = 1
    /\ segment[1] \in ObjectTokens
    /\ ObjectOf(segment[1], questions)
         = << << <<"e", "r", "r", "o", "r">>, <<"No LLM result available">> >> >>

(* C16: with k parsed segments and n documents the list passed on has n    *)
(* entries: the first min(k, n) are the parsed segments unchanged, in      *)
(* order, and when k < n the last n - k are the object                     *)
(* {"error": "No LLM result available"}; segments beyond n are dropped.    *)
C16_CountReconciled ==
    (/\ last.op = "process"
     /\ last.saved
     /\ last.content # <<>>) =>
        LET k == Len(last.segments)
            n == Len(last.papers_data)
        IN  /\ Len(last.llm_results) = n
            /\ \A i \in 1..n :
                  IF i <= k
                  THEN last.llm_results[i] = last.segments[i]
                  ELSE IsNoResultSentinel(last.llm_results[i], last.questions)

C16_Witness ==
    /\ last.op = "process"
    /\ last.saved
    /\ last.content = <<"{A}", PAPER_SEPARATOR, "w", PAPER_SEPARATOR, "{A}">>
    /\ Len(last.papers_data) = 2
    /\ Len(last.segments) = 3
    /\ last.llm_results = << <<"{A}">>, <<"w">> >>

(* C30: in the separator-delimited shape document i is given the text of   *)
(* the i-th piece between separators, white space around it aside, also    *)
(* when a piece is empty: later pieces are not moved up to earlier         *)
(* documents.                                                              *)
C30_PositionalAlignment ==
    (/\ last.op = "process"
     /\ last.saved
     /\ PAPER_SEPARATOR \in Range(last.content)) =>
        LET pieces == Split(last.content, PAPER_SEPARATOR)
        IN  \A i \in 1..Len(last.papers_data) :
               i <= Len(pieces) => Strip(last.llm_results[i]) = Strip(pieces[i])

(* C19: when the content begins with "[" but holds no JSON array, or one   *)
(* that does not parse, the segment list is the whole content as one       *)
(* segment, and in no case empty.                                          *)
C19_ArrayFallback ==
    (/\ last.op = "process"
     /\ last.saved
     /\ last.content # <<>>
     /\ PAPER_SEPARATOR \notin Range(last.content)
     /\ last.content[1] = "["
     /\ \/ JsonArrayMatch(last.content) = <<>>
        \/ JsonArrayItems(JsonArrayMatch(last.content)) = Invalid) =>
        last.segments = <<last.content>>

(* C13: when the content of the LLM results file holds no separator and    *)
(* does not begin with "[", every document of the checkpoint, whatever its *)
(* number, receives the answers parsed from the whole content.             *)
C13_SingleBlockShared ==
    (/\ last.op = "process"
     /\ last.saved
     /\ last.content # <<>>
     /\ PAPER_SEPARATOR \notin Range(last.content)
     /\ last.content[1] # "[") =>
        \A i \in 1..Len(last.papers_data) :
            last.results[i].llm_answers
              = PaperAnswers(last.papers_data[i], last.content, last.questions)

(***************************************************************************)
(* AnswerMatcher: combine_results on every list of up to MaxRecords        *)
(* segments against every checkpoint of up to MaxRecords documents.        *)
(***************************************************************************)
CombineSegments ==
    { <<" ">>, <<"{A}">>, <<"{R}">>, <<"w", " ", "{R}">>, <<"{A}", " ", "{R}">>,
      <<"{U}">>, <<"{L}">>, <<"{K}">>, <<"{Z}">>,
      <<"[", "{R}", ",", "{A}", "]">>, <<"[", "{A}", ",", "{K}", "]">> }

(* Checkpoints of 0..MaxRecords documents with alternating titles.         *)
CombinePapers ==
    { collect_paper_data([i \in 1..n |-> IF i % 2 = 1 THEN PaperA ELSE PaperB]) :
          n \in 0..MaxRecords }

CombineCall(papers_data, llm_results, questions) ==
    LET raised == combine_results_raises(papers_data, llm_results, questions)
    IN  /\ last' = [op |-> "combine", questions |-> questions, results |-> <<>>,
                    filename |-> <<>>, before |-> fs, now |-> Now,
                    papers_data |-> papers_data, llm_results |-> llm_results,
                    raised |-> raised,
                    ret |-> IF raised THEN <<>>
                            ELSE combine_results(papers_data, llm_results, questions)]
        /\ UNCHANGED <<fs, today, base, written, calls, pipeline>>

CombineNext ==
    /\ last.op = "none"
    /\ \E papers_data \in CombinePapers :
           \E llm_results \in SeqsUpTo(CombineSegments, MaxRecords) :
               \E questions \in WriterSchemas :
                   CombineCall(papers_data, llm_results, questions)

CombineInit == TableInit({DefaultName})

SpecCombine == CombineInit /\ [][CombineNext]_vars

IsParsingError(answer) ==
    answer # <<>> /\ answer[1] = "Error: Exception during parsing - "

IsObjectSegment(segment) ==
    /\ Len(segment) = 1
    /\ segment[1] \in ObjectTokens \ {"{R}"}

(* C17: for a segment that is a JSON object, an exactly equal key gives    *)
(* the answer of a question; without one, a key equal to the question      *)
(* case-insensitively after trimming gives it, wherever that key stands in *)
(* the object; word overlap decides only when there is neither.            *)
C17_MatchPriority ==
    (last.op = "combine" /\ ~last.raised) =>
        \A i \in (DOMAIN last.ret) \cap (DOMAIN last.llm_results) :
            IsObjectSegment(last.llm_results[i]) =>
                LET pairs == ObjectOf(last.llm_results[i][1], last.questions)
                IN  \A q \in Range(last.questions) :
                        LET exact == {j \in 1..Len(pairs) : pairs[j][1] = q}
                            folded == {j \in 1..Len(pairs) :
                                          Strip(Lower(pairs[j][1])) = Strip(Lower(q))}
                            chosen == IF exact # {} THEN exact ELSE folded
                        IN  (chosen # {} /\ \A j \in chosen : Strip(pairs[j][2]) # <<>>)
                               => \E j \in chosen :
                                      last.ret[i].llm_answers[q] = Strip(pairs[j][2])

(* C18: for a segment that is a JSON object, a question that matches no    *)
(* key of the object, exactly, case-insensitively or by its first three    *)
(* words, has the answer "Not found" in the record of combine_results,     *)
(* also when no question of the schema matches a key.                      *)
C18_UnmatchedNotFound ==
    (last.op = "combine" /\ ~last.raised) =>
        \A i \in (DOMAIN last.ret) \cap (DOMAIN last.llm_results) :
            IsObjectSegment(last.llm_results[i]) =>
                LET pairs == ObjectOf(last.llm_results[i][1], last.questions)
                IN  \A q \in Range(last.questions) :
                        (\A j \in 1..Len(pairs) :
                            /\ pairs[j][1] # q
                            /\ ~KeyMatches(q, pairs[j][1]))
                           => last.ret[i].llm_answers[q] = <<"Not found">>

(***************************************************************************)
(* The pipeline: runs of main in every mode against one output path, with  *)
(* the analysis step and the operator acting between runs.                 *)
(***************************************************************************)
RunBatches ==
    { <<PaperA, PaperNoAbstract>>, <<PaperA, PaperA>>, <<PaperA2, PaperB>> }

LocalOutcomes == {"{A}", "{N}"}

RunContents == { <<"{A}", PAPER_SEPARATOR, "{A}">> }

RunInit ==
    /\ fs = NoFiles
    /\ today = 1
    /\ base = DefaultName
    /\ last = NoCall
    /\ written = NoFiles
    /\ calls = 0
    /\ LLM_QUESTIONS = <<Q1>>
    /\ checkpoint = NoFile
    /\ prompts = NoFile
    /\ llm_file = NoFile

RunNext ==
    \/ \E papers \in RunBatches :
           \E outcome \in LocalOutcomes : RunLocal(papers, outcome)
    \/ \E papers \in RunBatches : RunCollect(papers)
    \/ RunProcess
    \/ \E papers \in RunBatches : RunFull(papers)
    \/ \E content \in RunContents : ExternalLLM(content)
    \/ \E questions \in WriterSchemas : ConfigureQuestions(questions)
    \/ NextDay

SpecRun == RunInit /\ [][RunNext]_vars

Modes == {"local", "collect", "process", "full"}

(* A row of the store holds the link, or the title, of the paper.          *)
Recorded(paper, content) ==
    \/ Contains(content, <<"[Link](">> \o paper.entry_id \o <<")">>)
    \/ \E i \in 3..Len(FileLines(content)) :
           Lower(Strip(Head(Split(FileLines(content)[i], "|"))))
               = Lower(Strip(paper.title))

AllDuplicates(papers, files, name) ==
    /\ papers # <<>>
    /\ Exists(files, name)
    /\ \A i \in 1..Len(papers) : Recorded(papers[i], files[name])

(***************************************************************************)
(* Runs after a change of schema: the base store was written under another *)
(* schema, so the runs resolve to the rotated file of the day.             *)
(***************************************************************************)
RerunInit ==
    /\ fs = save_results(NoFiles, <<Record(<<"b">>, "3", <<Q2>>, <<"x">>)>>,
                         <<Q2>>, DefaultName, Days[1])
    /\ today = 1
    /\ base = DefaultName
    /\ last = NoCall
    /\ written = NoFiles
    /\ calls = 0
    /\ LLM_QUESTIONS = <<Q1>>
    /\ checkpoint = NoFile
    /\ prompts = NoFile
    /\ llm_file = NoFile

RerunNext ==
    \/ \E papers \in RunBatches :
           \E outcome \in LocalOutcomes : RunLocal(papers, outcome)
    \/ \E papers \in RunBatches : RunCollect(papers)
    \/ RunProcess
    \/ \E papers \in RunBatches : RunFull(papers)
    \/ \E content \in RunContents : ExternalLLM(content)
    \/ NextDay

SpecRerun == RerunInit /\ [][RerunNext]_vars

(* One run in collect, full or local mode.                                 *)
IngestionRun ==
    /\ calls' = calls + 1
    /\ last'.op \in {"collect", "full", "local"}

(* C28: a collect, full or local run whose fetched candidates are all      *)
(* duplicates of rows of the store file it resolves to leaves every store  *)
(* file as it was, writes no checkpoint and collects and saves nothing.    *)
C28_AllDuplicatesNoEffect ==
    [][(/\ IngestionRun
        /\ AllDuplicates(last'.papers, fs, last'.filename)) =>
           /\ fs' = fs
           /\ checkpoint' = checkpoint
           /\ prompts' = prompts
           /\ last'.papers_data = <<>>
           /\ ~last'.saved]_vars

(* One run in process or full mode.                                        *)
ProcessingRun ==
    /\ calls' = calls + 1
    /\ last'.op \in {"process", "full"}

Links(records) == {records[i].arxiv_url : i \in 1..Len(records)}

(* C26: a run in process or full mode changes the store only if the        *)
(* checkpoint file and the LLM results file both exist; with either one    *)
(* missing no store file is created or modified.  In full mode the         *)
(* documents processed are the checkpoint written by the collection phase  *)
(* of the same run, and a run that collects no new document ends there:    *)
(* it writes no checkpoint and no store.                                   *)
C26_ProcessingNeedsBothFiles ==
    [][ProcessingRun =>
          /\ fs' # fs => checkpoint'.exists /\ llm_file.exists
          /\ (~llm_file.exists \/ ~checkpoint'.exists) => fs' = fs /\ ~last'.saved
          /\ llm_file' = llm_file
          /\ last'.op = "process" => checkpoint' = checkpoint
          /\ (last'.op = "full" /\ last'.saved) =>
                /\ checkpoint' = File(last'.papers_data)
                /\ Links(last'.papers_data)
                      \subseteq {last'.papers[i].entry_id : i \in 1..Len(last'.papers)}
                /\ [i \in 1..Len(last'.results) |-> last'.results[i].arxiv_url]
                      = [i \in 1..Len(checkpoint'.data) |-> checkpoint'.data[i].arxiv_url]
          /\ (last'.op = "full" /\ last'.papers_data = <<>>) =>
                fs' = fs /\ checkpoint' = checkpoint /\ ~last'.saved]_vars

C26_Witness ==
    /\ last.op = "full"
    /\ last.saved
    /\ calls = MaxCalls
    /\ checkpoint = File(last.papers_data)
    /\ Links(last.papers_data) = {ArxivUrl("3")}
    /\ Exists(fs, last.filename)
    /\ fs # last.before

(* C25: a collect, full or local run whose fetched batch is non-empty and  *)
(* holds only papers already recorded in the store makes one further       *)
(* fetch, with the widened count.                                          *)
C25_ExpansionInvoked ==
    (/\ last.op \in {"collect", "full", "local"}
     /\ last.filename = base
     /\ AllDuplicates(last.papers, last.before, base)) =>
        last.fetches = 2

LinkCells(content) ==
    {i \in 1..(Len(content) - 3) :
        content[i] = "[Link](" /\ content[i + 3] = ")"}

(* C1: whatever the runs and their modes, no store holds two rows with the *)
(* same arXiv link.                                                        *)
C1_NoDuplicateLinks ==
    \A name \in DOMAIN fs :
        \A i, j \in LinkCells(fs[name]) :
            SubSeq(fs[name], i, i + 3) = SubSeq(fs[name], j, j + 3) => i = j

SchemaDiffers(files, questions) ==
    /\ Exists(files, base)
    /\ NormalizedSchema(extract_questions_from_existing_file(files, base))
         # NormalizedSchema(questions)

(* C9: a run whose configured schema differs from the header of the base   *)
(* file writes no store file but stem_ddmmyy.ext, leaves the base file as  *)
(* it was, and leaves the store so that a run repeated on the same day     *)
(* with the same schema resolves to the same rotated name.                 *)
C9_SchemaDriftRotates ==
    (/\ last.op \in Modes
     /\ SchemaDiffers(last.before, last.questions)) =>
        /\ fs[base] = last.before[base]
        /\ \A name \in DOMAIN last.before :
              name # ExpectedRotated(base, last.now)
                  => Exists(fs, name) /\ fs[name] = last.before[name]
        /\ DOMAIN fs \subseteq DOMAIN last.before \cup {ExpectedRotated(base, last.now)}
        /\ last.saved => /\ last.filename = ExpectedRotated(base, last.now)
                         /\ Exists(fs, ExpectedRotated(base, last.now))
        /\ (Now = last.now /\ LLM_QUESTIONS = last.questions)
              => get_output_filename(fs, base, LLM_QUESTIONS, Now)
                   = ExpectedRotated(base, last.now)

C9_Witness ==
    /\ last.op = "process"
    /\ last.saved
    /\ SchemaDiffers(last.before, last.questions)
    /\ last.now = Days[2]
    /\ fs[base] = last.before[base]
    /\ ~Exists(last.before, <<"r", "_", "0", "6", "1", "1", "2", "6", ".", "m", "d">>)
    /\ Exists(fs, <<"r", "_", "0", "6", "1", "1", "2", "6", ".", "m", "d">>)

(***************************************************************************)
(* ContentWindower: process_content_for_llm on full texts made of a body,  *)
(* an optional conclusions heading and section, an optional next section   *)
(* and an optional reference list, under small and large budgets.          *)
(***************************************************************************)
Run(c, n) == [i \in 1..n |-> c]

ConclusionHeads ==
    { <<>>,
      <<"\n", "O", "u", "t", "l", "o", "o", "k", "\n">>,
      <<"\n", "2", ".", " ", "C", "O", "N", "C", "L", "U", "S", "I", "O", "N", "S", ":", "\n">> }

NextSections ==
    { <<>>,
      <<"\n", "3", " ", "N", "e", "x", "t", "\n", "z">>,
      <<"\n", "A", "p", "p", "e", "n", "d", "i", "x", "\n", "z">> }

ReferenceTails ==
    { <<>>,
      <<"\n", "R", "e", "f", "e", "r", "e", "n", "c", "e", "s", "\n", "r">>,
      <<"\n", "B", "i", "b", "l", "i", "o", "g", "r", "a", "p", "h", "y", "\n", "b", "\n", "R", "E", "F", "E", "R", "E", "N", "C", "E", "S", "\n", "r">> }

WindowTexts ==
    { Run("x", a) \o head \o Run("y", c) \o next \o tail :
          a \in 1..MaxText, c \in 0..MaxText, head \in ConclusionHeads,
          next \in NextSections, tail \in ReferenceTails }

WindowBudgets == (0..3) \cup ((MaxBudget - 3)..MaxBudget)

WindowCall(title, abstract, content, max_content_length) ==
    /\ last' = [op |-> "window", questions |-> <<>>, results |-> <<>>,
                filename |-> <<>>, before |-> fs,
                ret |-> process_content_for_llm(title, abstract, content,
                                                max_content_length),
                now |-> Now, title |-> title, abstract |-> abstract,
                content |-> content, max_content_length |-> max_content_length]
    /\ UNCHANGED <<fs, today, base, written, calls, pipeline>>

WindowNext ==
    /\ last.op = "none"
    /\ \E content \in WindowTexts :
           \E max_content_length \in WindowBudgets :
               WindowCall(<<"T", "\n", "t">>, <<"A">>, content, max_content_length)

WindowInit == TableInit({DefaultName})

SpecWindow == WindowInit /\ [][WindowNext]_vars

LabelsLength(output) ==
    IF "[CONCLUSIONS SECTION]:" \in Range(output)
    THEN TextLen(TitleLabel \o AbstractLabel \o ConclusionsLabel \o MainContentLabel)
    ELSE TextLen(TitleLabel \o AbstractLabel \o ContentLabel)

(* C10: the output of process_content_for_llm holds the title and the      *)
(* abstract verbatim, and what it takes from the full text (conclusions    *)
(* and main-body prefix, or the Content body) is at most max_length        *)
(* characters: the output is no longer than max_length plus the title, the *)
(* abstract and the section labels.                                        *)
C10_BodyWithinBudget ==
    last.op = "window" =>
        /\ Contains(last.ret, TitleLabel \o last.title \o AbstractLabel \o last.abstract)
        /\ TextLen(last.ret) <= last.max_content_length + TextLen(last.title)
                                + TextLen(last.abstract) + LabelsLength(last.ret)

(* The output expected of a long text with a conclusions section: title,   *)
(* abstract, the labelled conclusions block whole, then the first          *)
(* max(0, max_length - length of the block) characters of the text.        *)
ExpectedWindow(title, abstract, content_no_refs, conclusions, max_length) ==
    LET block == <<"\n", "\n", "[CONCLUSIONS SECTION]:", "\n">> \o conclusions
        room == IF max_length - TextLen(block) > 0
                THEN max_length - TextLen(block) ELSE 0
    IN  <<"Title:", " ">> \o title \o <<"\n", "\n", "Abstract:", " ">> \o abstract
        \o block \o <<"\n", "\n", "[MAIN CONTENT]:", "\n">>
        \o SubSeq(content_no_refs, 1, room)

(* C23: when the text without its references is longer than max_length and *)
(* a conclusions section is found, the output holds the whole conclusions  *)
(* block and a main-body prefix of exactly                                 *)
(* max(0, max_length - length of the labelled block) characters, so block  *)
(* and prefix together are max_length long whenever the block fits.        *)
C23_ConclusionsUncut ==
    last.op = "window" =>
        \A content_no_refs \in {strip_references_section(last.content)} :
            \A conclusions \in {extract_conclusions_section(content_no_refs)} :
                (/\ Len(content_no_refs) > last.max_content_length
                 /\ conclusions # <<>>) =>
                    /\ last.ret = ExpectedWindow(last.title, last.abstract,
                                                 content_no_refs, conclusions,
                                                 last.max_content_length)
                    /\ 25 + TextLen(conclusions) <= last.max_content_length =>
                           TextLen(last.ret) - TextLen(last.title)
                             - TextLen(last.abstract) - 37
                               = last.max_content_length

C23_Witness ==
    /\ last.op = "window"
    /\ last.max_content_length = MaxBudget - 2
    /\ "[CONCLUSIONS SECTION]:" \in Range(last.ret)
    /\ last.ret[Len(last.ret) - 2] = "\n"
    /\ last.ret[Len(last.ret) - 3] = "[MAIN CONTENT]:"
    /\ Len(last.content) > MaxBudget

(***************************************************************************)
(* strip_references_section on texts with up to two reference headings of  *)
(* any of the three kinds, in either order.                                *)
(***************************************************************************)
RefHeadings ==
    { <<>>,
      <<"\n", "R", "e", "f", "e", "r", "e", "n", "c", "e", "s", "\n">>,
      <<"\n", " ", "B", "I", "B", "L", "I", "O", "G", "R", "A", "P", "H", "Y", "\n">>,
      <<"\n", "r", "e", "f", "e", "r", "e", "n", "c", "e", " ", "L", "i", "s", "t", " ", "\n">> }

StripTexts ==
    { Run("x", a) \o first \o Run("y", c) \o second \o Run("z", d) :
          a \in 0..MaxText, c \in 0..MaxText, d \in 0..1,
          first \in RefHeadings, second \in RefHeadings }

StripCall(text) ==
    /\ last' = [op |-> "strip", questions |-> <<>>, results |-> <<>>,
                filename |-> <<>>, before |-> fs,
                ret |-> strip_references_section(text), now |-> Now,
                content |-> text]
    /\ UNCHANGED <<fs, today, base, written, calls, pipeline>>

StripNext ==
    /\ last.op = "none"
    /\ \E text \in StripTexts : StripCall(text)

SpecStrip == WindowInit /\ [][StripNext]_vars

(* The lines that are a reference heading: a line after the first, ended   *)
(* by a line break, that reads References, Bibliography or Reference List  *)
(* in any capitalization, white space around it aside.                     *)
HeadingLines(text) ==
    LET lines == Split(text, "\n")
    IN  { i \in 2..(Len(lines) - 1) : Lower(Strip(lines[i])) \in Range(ref_patterns) }

(* C24: strip_references_section keeps the text before the earliest line   *)
(* that is a reference heading of any kind, so no heading line is left in  *)
(* the result; a text without such a line is returned unchanged.           *)
C24_EarliestHeading ==
    last.op = "strip" =>
        IF HeadingLines(last.content) = {}
        THEN last.ret = last.content
        ELSE /\ last.ret = Strip(Join(SubSeq(Split(last.content, "\n"), 1,
                                             SetMin(HeadingLines(last.content)) - 1),
                                      <<"\n">>))
             /\ HeadingLines(<<"\n">> \o last.ret \o <<"\n">>) = {}

====
